---------------------------- MODULE Spec2Model ----------------------------
(***************************************************************************)
(* A model of src/app.py: the CSV loader, the table cleaner, the column    *)
(* kind inferencer, the chart suggester, the figure builder and the three  *)
(* request handlers around the in-memory store DATAFRAMES.                 *)
(*                                                                         *)
(* A DataFrame is a sequence of columns [name, dtype, cells]; a cell is    *)
(* <<>> when it is missing (NaN, None, NaT) and <<v>> when it holds v.     *)
(* A raised exception is the record [ok |-> FALSE, error |-> e].           *)
(*                                                                         *)
(* DATAFRAMES is the store, a function from upload ids to cleaned tables.  *)
(* issued is a history variable: the ids that upload has returned, each    *)
(* with the table stored under it at that moment.  request and response    *)
(* are the request being served (or the arguments of the function under    *)
(* study) and the way it ended (or the function's result).                 *)
(*                                                                         *)
(* Spec is the application: upload, configure (GET and POST) and download  *)
(* in any order.  SpecClean, SpecInfer, SpecSuggest and SpecBuild apply    *)
(* one function each to every argument of a bounded set.                   *)
(***************************************************************************)
EXTENDS Integers, Sequences, FiniteSets, TLC

VARIABLES DATAFRAMES, issued, request, response

vars == <<DATAFRAMES, issued, request, response>>

-----------------------------------------------------------------------------
(* Values shared by every part of the model.                               *)

\* Python's None: an absent form field, an absent column choice.
None == "None"

\* A missing cell and a cell that holds v.
NaN == <<>>

Val(v) == <<v>>

isna(c) == c = NaN

\* A call that returned v, and a call that raised e.
Ok(v) == [ok |-> TRUE, value |-> v]

Raise(e) == [ok |-> FALSE, error |-> e]

\* The response of a handler that has not run yet.
Pending == [status |-> "pending"]

Max(a, b) == IF a >= b THEN a ELSE b

Min(a, b) == IF a <= b THEN a ELSE b

\* All sequences over S of length 0..n.
SeqUpTo(S, n) == UNION {[1..k -> S] : k \in 0..n}

\* The row count of a DataFrame (every column has the same length); it is
\* read only per column, so a table without columns counts no rows.
len(df) == IF df = <<>> THEN 0 ELSE Len(df[1].cells)

ColumnNames(df) == {df[i].name : i \in 1..Len(df)}

\* df[col] for a label that names exactly one column.
Column(df, col) == df[CHOOSE i \in 1..Len(df) : df[i].name = col]

-----------------------------------------------------------------------------
(* clean_dataframe                                                         *)

\* str.strip on the header and cell texts of the model.
strip(s) ==
  CASE s = " "           -> ""
    [] s = " x"          -> "x"
    [] s = " a"          -> "a"
    [] s = "a "          -> "a"
    [] s = " 2020-01-01" -> "2020-01-01"
    [] OTHER             -> s

\* Series.astype(str) on an object column: a missing cell becomes the text "nan".
astype_str(c) == IF isna(c) THEN Val("nan") ELSE c

\* The texts the timestamp parser reads as a missing timestamp.
nat_strings == {"NaT", "nat", "NAT", "nan", "NaN", "NAN"}

\* The texts of the model that parse as a timestamp, and the day each one names.
TimestampOf(s) ==
  CASE s = "2020-01-01" -> 18262
    [] s = "2020-01-02" -> 18263

IsTimestampText(s) == s \in {"2020-01-01", "2020-01-02"}

\* pd.to_datetime(column, errors="raise") on a column of texts: all or nothing.
to_datetime(cells) ==
  LET null(s) == s = "" \/ s \in nat_strings
  IN IF \A i \in 1..Len(cells) : null(cells[i][1]) \/ IsTimestampText(cells[i][1])
     THEN Ok([i \in 1..Len(cells) |->
               IF null(cells[i][1]) THEN NaN ELSE Val(TimestampOf(cells[i][1]))])
     ELSE Raise("ValueError: unknown datetime string")

\* df.dropna(axis=1, how="all"): keep the columns with a cell that is not missing.
dropna_all(df) ==
  LET Kept(c) == \E i \in 1..Len(c.cells) : ~isna(c.cells[i])
  IN SelectSeq(df, Kept)

\* One object column after the trim loop and the date loop.
CleanObjectColumn(c) ==
  LET stripped == [i \in 1..Len(c.cells) |-> Val(strip(astype_str(c.cells[i])[1]))]
      parsed   == to_datetime(stripped)
  IN IF parsed.ok
     THEN [name |-> c.name, dtype |-> "datetime64", cells |-> parsed.value]
     ELSE [name |-> c.name, dtype |-> "object", cells |-> stripped]

\* Two columns under one label: df[col] is then a DataFrame, which has
\* neither .str nor .dtype, and both loops raise on it.
HasDuplicateLabel(df) ==
  \E i, j \in 1..Len(df) : i # j /\ df[i].name = df[j].name

\* raw_df is a DataFrame: pd.read_csv returns one or raises, so the
\* "raw_df is None" return is never taken.
clean_dataframe(raw_df) ==
  LET renamed == [i \in 1..Len(raw_df) |-> [raw_df[i] EXCEPT !.name = strip(@)]]
      df      == dropna_all(renamed)
  IN IF HasDuplicateLabel(df)
     THEN Raise("AttributeError")
     ELSE Ok([i \in 1..Len(df) |->
               IF df[i].dtype = "object" THEN CleanObjectColumn(df[i]) ELSE df[i]])

\* Two DataFrames with the same labels, dtypes and cells.
SameTable(a, b) ==
  /\ Len(a) = Len(b)
  /\ \A i \in 1..Len(a) :
       /\ a[i].name = b[i].name
       /\ a[i].dtype = b[i].dtype
       /\ a[i].cells = b[i].cells

\* The tables the cleaner is applied to: up to MaxCleanCols columns of
\* CleanRows rows, headers padded or not, object columns of texts and missing
\* cells, float columns of numbers and missing cells.
MaxCleanCols == 2

CleanRows == 2

Headers == {"a", " a", "b"}

TextCells == {NaN, Val("x"), Val(" x"), Val(" "), Val("2020-01-01"), Val("NaT")}

FloatCells == {NaN, Val(1)}

\* A column to draw: <<header, dtype, cells if object, cells if float64>>.
RawColumns ==
  {<<h, "object", cs, <<>>>> : h \in Headers, cs \in [1..CleanRows -> TextCells]}
  \cup
  {<<h, "float64", <<>>, cs>> : h \in Headers, cs \in [1..CleanRows -> FloatCells]}

RawColumn(p) ==
  [name |-> p[1], dtype |-> p[2], cells |-> IF p[2] = "object" THEN p[3] ELSE p[4]]

InitClean ==
  /\ DATAFRAMES = <<>>
  /\ issued = <<>>
  /\ \E ps \in SeqUpTo(RawColumns, MaxCleanCols) :
       request = [raw_df |-> [i \in 1..Len(ps) |-> RawColumn(ps[i])]]
  /\ response = Pending

\* clean_dataframe applied once, and once more to its own result.
ApplyClean ==
  /\ response = Pending
  /\ LET once == clean_dataframe(request.raw_df)
     IN response' = [status |-> "done",
                     once   |-> once,
                     twice  |-> IF once.ok THEN clean_dataframe(once.value) ELSE once]
  /\ UNCHANGED <<DATAFRAMES, issued, request>>

SpecClean == InitClean /\ [][ApplyClean]_vars

\* C8: the cleaner is idempotent: cleaning a cleaned table gives the same
\* column names, column types and cells as cleaning once.
C8_CleanIdempotent ==
  (response.status = "done" /\ response.once.ok) =>
    /\ response.twice.ok
    /\ SameTable(response.twice.value, response.once.value)

-----------------------------------------------------------------------------
(* infer_column_kinds                                                      *)

is_numeric_dtype(dtype) == dtype \in {"int64", "float64", "bool"}

is_datetime64_any_dtype(dtype) == dtype = "datetime64"

\* Series.nunique(dropna=True): the distinct cells that are not missing.
nunique(cells) == Cardinality({cells[i] : i \in 1..Len(cells)} \ {NaN})

\* column_kind with a fault: the cardinality test is strict.
column_kind_strict(dtype, unique_count, nrows) ==
  IF is_numeric_dtype(dtype) THEN "numeric"
  ELSE IF is_datetime64_any_dtype(dtype) THEN "datetime"
  ELSE IF unique_count < Max(20, (5 * nrows) \div 100) THEN "categorical"
  ELSE "text"

\* The body of the loop: the kind of one column, from its dtype, its count
\* of distinct values and the row count; int(0.05 * n) is n * 5 \div 100.
column_kind(dtype, unique_count, nrows) ==
  IF is_numeric_dtype(dtype) THEN "numeric"
  ELSE IF is_datetime64_any_dtype(dtype) THEN "datetime"
  ELSE IF unique_count <= Max(20, (5 * nrows) \div 100) THEN "categorical"
  ELSE "text"

\* What the inferencer reads of a DataFrame: per column its label, dtype and
\* count of distinct values, and the row count.
Profile(df) ==
  [nrows |-> len(df),
   cols  |-> [i \in 1..Len(df) |->
               [name |-> df[i].name, dtype |-> df[i].dtype,
                unique_count |-> nunique(df[i].cells)]]]

\* The dict column -> kind, as its items in insertion (column) order.
infer_column_kinds(p) ==
  [i \in 1..Len(p.cols) |->
     <<p.cols[i].name, column_kind(p.cols[i].dtype, p.cols[i].unique_count, p.nrows)>>]

\* The tables the inferencer is applied to: one column of any dtype, up to
\* MaxInferRows rows and up to MaxUnique distinct values.
MaxInferRows == 1000

MaxUnique == 52

Dtypes == {"int64", "float64", "bool", "datetime64", "object"}

InitInfer ==
  /\ DATAFRAMES = <<>>
  /\ issued = <<>>
  /\ \E n \in 0..MaxInferRows, d \in Dtypes :
       \E u \in 0..Min(n, MaxUnique) :
         request = [nrows |-> n,
                    cols  |-> <<[name |-> "c1", dtype |-> d, unique_count |-> u]>>]
  /\ response = Pending

ApplyInfer ==
  /\ response = Pending
  /\ response' = [status |-> "done", kinds |-> infer_column_kinds(request)]
  /\ UNCHANGED <<DATAFRAMES, issued, request>>

SpecInfer == InitInfer /\ [][ApplyInfer]_vars

-----------------------------------------------------------------------------
(* suggest_charts                                                          *)

\* ColumnsOfKind with a fault: the columns come out last to first.
ColumnsOfKind_reversed(kinds, kind) ==
  LET IsKind(item) == item[2] = kind
      items == SelectSeq(kinds, IsKind)
  IN [i \in 1..Len(items) |-> items[Len(items) + 1 - i][1]]

\* [c for c, k in kinds.items() if k == kind], in the dict's order.
ColumnsOfKind(kinds, kind) ==
  LET IsKind(item) == item[2] = kind
      items == SelectSeq(kinds, IsKind)
  IN [i \in 1..Len(items) |-> items[i][1]]

\* suggest_charts with a fault: pie is gated by a categorical column alone.
suggest_charts_pie_ungated(kinds) ==
  LET numeric == ColumnsOfKind(kinds, "numeric")
      cat     == ColumnsOfKind(kinds, "categorical")
      dt      == ColumnsOfKind(kinds, "datetime")
      first   == IF numeric # <<>> THEN numeric[1] ELSE None
  IN (IF dt # <<>> /\ numeric # <<>> THEN <<<<"line", dt[1], numeric[1]>>>> ELSE <<>>)
     \o (IF cat # <<>> /\ numeric # <<>> THEN <<<<"bar", cat[1], numeric[1]>>>> ELSE <<>>)
     \o (IF numeric # <<>> /\ Len(numeric) >= 2
           THEN <<<<"scatter", numeric[1], numeric[2]>>>> ELSE <<>>)
     \o (IF cat # <<>> /\ numeric # <<>> THEN <<<<"box", cat[1], numeric[1]>>>> ELSE <<>>)
     \o (IF numeric # <<>> THEN <<<<"histogram", numeric[1], None>>>> ELSE <<>>)
     \o (IF cat # <<>> THEN <<<<"pie", cat[1], first>>>> ELSE <<>>)

\* The ordered list of (chart_type, x_col, y_col): six appends in sequence.
suggest_charts(kinds) ==
  LET numeric == ColumnsOfKind(kinds, "numeric")
      cat     == ColumnsOfKind(kinds, "categorical")
      dt      == ColumnsOfKind(kinds, "datetime")
  IN (IF dt # <<>> /\ numeric # <<>> THEN <<<<"line", dt[1], numeric[1]>>>> ELSE <<>>)
     \o (IF cat # <<>> /\ numeric # <<>> THEN <<<<"bar", cat[1], numeric[1]>>>> ELSE <<>>)
     \o (IF numeric # <<>> /\ Len(numeric) >= 2
           THEN <<<<"scatter", numeric[1], numeric[2]>>>> ELSE <<>>)
     \o (IF cat # <<>> /\ numeric # <<>> THEN <<<<"box", cat[1], numeric[1]>>>> ELSE <<>>)
     \o (IF numeric # <<>> THEN <<<<"histogram", numeric[1], None>>>> ELSE <<>>)
     \o (IF cat # <<>> /\ numeric # <<>> THEN <<<<"pie", cat[1], numeric[1]>>>> ELSE <<>>)

\* The mappings the suggester is applied to: up to MaxKindCols columns, each of
\* any of the four kinds, labelled in column order.
MaxKindCols == 4

Kinds == {"numeric", "categorical", "datetime", "text"}

ColumnLabels == <<"c1", "c2", "c3", "c4", "c5", "c6">>

KindsOf(ks) == [i \in 1..Len(ks) |-> <<ColumnLabels[i], ks[i]>>]

KindMappings == {KindsOf(ks) : ks \in SeqUpTo(Kinds, MaxKindCols)}

InitSuggest ==
  /\ DATAFRAMES = <<>>
  /\ issued = <<>>
  /\ request \in {[kinds |-> k] : k \in KindMappings}
  /\ response = Pending

ApplySuggest ==
  /\ response = Pending
  /\ response' = [status |-> "done", suggestions |-> suggest_charts(request.kinds)]
  /\ UNCHANGED <<DATAFRAMES, issued, request>>

SpecSuggest == InitSuggest /\ [][ApplySuggest]_vars

\* The chart types of a suggestion list, in order and as a set.
ChartTypesOf(s) == [i \in 1..Len(s) |-> s[i][1]]

ChartTypeSet(s) == {s[i][1] : i \in 1..Len(s)}

\* The positions of the columns of a kind, and the k-th column of a kind.
PositionsOf(kinds, kind) == {i \in 1..Len(kinds) : kinds[i][2] = kind}

NthOfKind(kinds, kind, k) ==
  LET i == CHOOSE i \in PositionsOf(kinds, kind) :
             Cardinality({j \in PositionsOf(kinds, kind) : j < i}) = k - 1
  IN kinds[i][1]

\* The six rules in their fixed order: <<type, kind of x, n-th of it, kind of y,
\* n-th of it>>; the rule applies when both columns exist.
Rules ==
  << <<"line",      "datetime",    1, "numeric", 1>>,
     <<"bar",       "categorical", 1, "numeric", 1>>,
     <<"scatter",   "numeric",     1, "numeric", 2>>,
     <<"box",       "categorical", 1, "numeric", 1>>,
     <<"histogram", "numeric",     1, "numeric", 1>>,
     <<"pie",       "categorical", 1, "numeric", 1>> >>

RuleApplies(kinds, r) ==
  /\ Cardinality(PositionsOf(kinds, r[2])) >= r[3]
  /\ Cardinality(PositionsOf(kinds, r[4])) >= r[5]

\* C1: the result is exactly the rules that apply, in the order line, bar,
\* scatter, box, histogram, pie, each with the first (second) column of its
\* kinds by column order and histogram with no y; one datetime, two numeric
\* and one categorical column give all six.
C1_SuggestByRules ==
  response.status = "done" =>
    LET kinds == request.kinds
        s     == response.suggestions
        Applies(r) == RuleApplies(kinds, r)
        rules == SelectSeq(Rules, Applies)
    IN /\ Len(s) = Len(rules)
       /\ \A i \in 1..Len(s) :
            /\ s[i][1] = rules[i][1]
            /\ s[i][2] = NthOfKind(kinds, rules[i][2], rules[i][3])
            /\ s[i][3] = IF rules[i][1] = "histogram" THEN None
                         ELSE NthOfKind(kinds, rules[i][4], rules[i][5])
       /\ (/\ Cardinality(PositionsOf(kinds, "datetime")) = 1
           /\ Cardinality(PositionsOf(kinds, "numeric")) = 2
           /\ Cardinality(PositionsOf(kinds, "categorical")) = 1)
          => ChartTypesOf(s) = <<"line", "bar", "scatter", "box", "histogram", "pie">>

\* Four or more columns, the first and the fourth of them the two numeric
\* ones, with one datetime and one categorical column, gave all six
\* suggestions, scatter over the first and the fourth column.
C1_Witness ==
  /\ response.status = "done"
  /\ Cardinality(PositionsOf(request.kinds, "datetime")) = 1
  /\ Cardinality(PositionsOf(request.kinds, "numeric")) = 2
  /\ Cardinality(PositionsOf(request.kinds, "categorical")) = 1
  /\ request.kinds[1][2] = "numeric"
  /\ Len(request.kinds) >= 4
  /\ request.kinds[4][2] = "numeric"
  /\ Len(response.suggestions) = 6
  /\ response.suggestions[3] = <<"scatter", "c1", "c4">>

ChartTypes == {"line", "bar", "scatter", "box", "histogram", "pie"}

\* C10 as stated: every subset of the six chart types is the set of suggested
\* types of some mapping of columns to kinds.
C10_AnySubset ==
  response.status = "done" =>
    \A S \in SUBSET ChartTypes :
      \E k \in KindMappings : ChartTypeSet(suggest_charts(k)) = S

\* The sets of suggested types there are: histogram with any of line, scatter
\* and the block bar+box+pie, or nothing at all.
SuggestedSets ==
  {{}} \cup
  {{"histogram"} \cup l \cup sc \cup b :
     l \in {{}, {"line"}}, sc \in {{}, {"scatter"}}, b \in {{}, {"bar", "box", "pie"}}}

\* C10 as amended: bar, box and pie share one gate and every rule needs a
\* numeric column, so the set of suggested types is always one of nine sets,
\* and each of the nine is the set of some mapping.
C10_NineSubsets ==
  response.status = "done" =>
    /\ ChartTypeSet(response.suggestions) \in SuggestedSets
    /\ \A S \in SuggestedSets :
         \E k \in KindMappings : ChartTypeSet(suggest_charts(k)) = S

\* A datetime and a numeric column alone gave line and histogram, without bar.
C10_Witness ==
  /\ response.status = "done"
  /\ ChartTypeSet(response.suggestions) = {"line", "histogram"}

-----------------------------------------------------------------------------
(* build_figure                                                            *)

\* Python truthiness of an optional text, and a or b.
Truthy(v) == v # None /\ v # ""

Or(a, b) == IF Truthy(a) THEN a ELSE b

\* The sum of the cells at the rows in I, missing cells skipped.
RECURSIVE SumCells(_, _)
SumCells(cells, I) ==
  IF I = {} THEN 0
  ELSE LET i == CHOOSE i \in I : TRUE
       IN (IF isna(cells[i]) THEN 0 ELSE cells[i][1]) + SumCells(cells, I \ {i})

\* The rows of a column that hold the cell k (a missing k included).
RowsWith(cells, k) == {i \in 1..Len(cells) : cells[i] = k}

\* The distinct cells of a column in the order they first appear.
Distinct(cells) ==
  LET First(i) == \A j \in 1..(i - 1) : cells[j] # cells[i]
      firsts == {i \in 1..Len(cells) : First(i)}
      Nth(k) == CHOOSE i \in firsts : Cardinality({j \in firsts : j < i}) = k - 1
  IN [k \in 1..Cardinality(firsts) |-> cells[Nth(k)]]

\* df.groupby(x, dropna=False)[y].sum().reset_index(): a KeyError for a label
\* that is no column, a ValueError when the index x is inserted beside a
\* column of the same label, else one row per distinct x cell. The rows are
\* kept in order of first appearance; no property reads their order.
groupby_sum_reset_index(df, x, y) ==
  IF x \notin ColumnNames(df) \/ y \notin ColumnNames(df)
  THEN Raise("KeyError")
  ELSE IF x = y
  THEN Raise("ValueError: cannot insert, already exists")
  ELSE LET xs   == Column(df, x).cells
           ys   == Column(df, y).cells
           keys == Distinct(xs)
       IN Ok(<<[name |-> x, dtype |-> Column(df, x).dtype, cells |-> keys],
               [name |-> y, dtype |-> Column(df, y).dtype,
                cells |-> [k \in 1..Len(keys) |-> Val(SumCells(ys, RowsWith(xs, keys[k])))]]>>)

\* A plotly express call raises on an argument that names no column.
NotAColumn(df, args) == \E a \in args : a # None /\ a \notin ColumnNames(df)

\* px.line, px.bar, px.scatter, px.box and (with y = None) px.histogram.
px_chart(type, df, x, y, color, title) ==
  IF NotAColumn(df, {x, y, color})
  THEN Raise("ValueError: not the name of a column")
  ELSE Ok([type |-> type, x |-> x, y |-> y, color |-> color, title |-> title])

\* px.pie: one slice per distinct label of column names, weighted by the sum
\* of column values over its rows, or by its number of rows without values;
\* no slice without names.
px_pie(df, names, values, title) ==
  IF NotAColumn(df, {names, values})
  THEN Raise("ValueError: not the name of a column")
  ELSE Ok([type |-> "pie", names |-> names, values |-> values, title |-> title,
           slices |->
             IF names = None THEN {}
             ELSE LET labels == Column(df, names).cells
                  IN {<<labels[i],
                        IF values = None
                        THEN Cardinality(RowsWith(labels, labels[i]))
                        ELSE SumCells(Column(df, values).cells, RowsWith(labels, labels[i]))>> :
                      i \in 1..Len(labels)}])

\* build_figure with a fault: the box branch is missing.
build_figure_no_box(df, chart, x, y, color, agg, title, color_continuous_scale) ==
  IF chart = "line" THEN px_chart("line", df, x, y, color, title)
  ELSE IF chart = "bar" THEN px_chart("bar", df, x, y, color, title)
  ELSE IF chart = "scatter" THEN px_chart("scatter", df, x, y, color, title)
  ELSE IF chart = "histogram" THEN px_chart("histogram", df, Or(x, y), None, color, title)
  ELSE IF chart = "pie"
  THEN IF Truthy(x) /\ Truthy(y)
       THEN LET dfg == groupby_sum_reset_index(df, x, y)
            IN IF dfg.ok THEN px_pie(dfg.value, x, y, title) ELSE dfg
       ELSE px_pie(df, Or(x, color), None, title)
  ELSE Raise("ValueError: Unsupported chart type")

build_figure(df, chart, x, y, color, agg, title, color_continuous_scale) ==
  IF chart = "line" THEN px_chart("line", df, x, y, color, title)
  ELSE IF chart = "bar" THEN px_chart("bar", df, x, y, color, title)
  ELSE IF chart = "scatter" THEN px_chart("scatter", df, x, y, color, title)
  ELSE IF chart = "histogram" THEN px_chart("histogram", df, Or(x, y), None, color, title)
  ELSE IF chart = "box" THEN px_chart("box", df, x, y, color, title)
  ELSE IF chart = "pie"
  THEN IF Truthy(x) /\ Truthy(y)
       THEN LET dfg == groupby_sum_reset_index(df, x, y)
            IN IF dfg.ok THEN px_pie(dfg.value, x, y, title) ELSE dfg
       ELSE px_pie(df, Or(x, color), None, title)
  ELSE Raise("ValueError: Unsupported chart type")

\* The calls of the builder: a cleaned table of up to MaxBuildRows rows with a
\* text column Region, a timestamp column Day and a number column Sales (the
\* last two with missing cells, Sales not all missing), any chart value, x among the columns, y the
\* number column, and labels that name no column.
MaxBuildRows == 2

BuildRows == {"A", "B"} \X {NaN, Val(18262)} \X {NaN, Val(10), Val(20)}

TableOfRows(rows) ==
  <<[name |-> "Region", dtype |-> "object",
     cells |-> [i \in 1..Len(rows) |-> Val(rows[i][1])]],
    [name |-> "Day", dtype |-> "datetime64", cells |-> [i \in 1..Len(rows) |-> rows[i][2]]],
    [name |-> "Sales", dtype |-> "float64", cells |-> [i \in 1..Len(rows) |-> rows[i][3]]]>>

ChartValues == {"line", "bar", "scatter", "histogram", "box", "pie", "radar", "", None}

XValues == {None, "Region", "Day", "Sales", "Nope"}

YValues == {None, "Sales", "Nope"}

ColorValues == {None, "Region"}

\* agg, title and palette: all absent, or all given.
Options ==
  {[agg |-> None, title |-> "", palette |-> None],
   [agg |-> "mean", title |-> "T", palette |-> "Viridis"]}

InitBuild ==
  /\ DATAFRAMES = <<>>
  /\ issued = <<>>
  /\ \E rows \in SeqUpTo(BuildRows, MaxBuildRows), chart \in ChartValues,
        x \in XValues, y \in YValues, color \in ColorValues, o \in Options :
       /\ \E i \in 1..Len(rows) : rows[i][3] # NaN
       /\ request = [df |-> TableOfRows(rows), chart |-> chart, x |-> x, y |-> y,
                     color |-> color, agg |-> o.agg, title |-> o.title,
                     palette |-> o.palette]
  /\ response = Pending

ApplyBuild ==
  /\ response = Pending
  /\ response' = [status |-> "done",
                  fig    |-> build_figure(request.df, request.chart, request.x, request.y,
                                          request.color, request.agg, request.title,
                                          request.palette)]
  /\ UNCHANGED <<DATAFRAMES, issued, request>>

SpecBuild == InitBuild /\ [][ApplyBuild]_vars

Unsupported(fig) == ~fig.ok /\ fig.error = "ValueError: Unsupported chart type"

\* C3: the build ends in the unsupported-chart error exactly for the chart
\* values outside line, bar, scatter, histogram, box, pie, whatever the other
\* arguments are.
C3_UnsupportedChart ==
  response.status = "done" =>
    (Unsupported(response.fig) <=>
       request.chart \notin {"line", "bar", "scatter", "histogram", "box", "pie"})

\* A build of chart "radar" with every other argument given ended in the
\* unsupported-chart error.
C3_Witness ==
  /\ response.status = "done"
  /\ request.chart = "radar"
  /\ request.x = "Region" /\ request.y = "Sales" /\ request.color = "Region"
  /\ request.agg = "mean"
  /\ Len(request.df[1].cells) = 2
  /\ Unsupported(response.fig)

\* The slices of the specification: one per distinct cell of column x,
\* weighted by the sum of column y over its rows, or by the number of its rows.
SlicesBySum(df, x, y) ==
  LET xs == Column(df, x).cells
      ys == Column(df, y).cells
  IN {<<k, SumCells(ys, {i \in 1..Len(xs) : xs[i] = k})>> : k \in {xs[i] : i \in 1..Len(xs)}}

SlicesByCount(df, col) ==
  LET cs == Column(df, col).cells
  IN {<<k, Cardinality({i \in 1..Len(cs) : cs[i] = k})>> : k \in {cs[i] : i \in 1..Len(cs)}}

\* C4: a pie with both x and y given (columns of the table) is a figure with
\* one slice per distinct x value, a missing x included, weighted by the sum
\* of y over its rows, whatever agg is.
C4_PieSumsYByX ==
  (/\ response.status = "done"
   /\ request.chart = "pie"
   /\ request.x \in ColumnNames(request.df)
   /\ request.y \in ColumnNames(request.df)) =>
    /\ response.fig.ok
    /\ response.fig.value.slices = SlicesBySum(request.df, request.x, request.y)

\* The part of C4 the code keeps: the same, for x and y two different columns.
C4_PieSumsYByOtherX ==
  (/\ response.status = "done"
   /\ request.chart = "pie"
   /\ request.x \in ColumnNames(request.df)
   /\ request.y \in ColumnNames(request.df)
   /\ request.x # request.y) =>
    /\ response.fig.ok
    /\ response.fig.value.slices = SlicesBySum(request.df, request.x, request.y)

\* C5: a pie with exactly one of x and y given (a column of the table) shows
\* the unweighted counts of that column: of x when only x is given, of y when
\* only y is given.
C5_PieCountsTheGivenColumn ==
  (/\ response.status = "done"
   /\ request.chart = "pie"
   /\ (request.x = None) # (request.y = None)
   /\ Or(request.x, request.y) \in ColumnNames(request.df)) =>
    /\ response.fig.ok
    /\ response.fig.value.slices = SlicesByCount(request.df, Or(request.x, request.y))

\* The part of C5 the code keeps: with only x given, the counts of column x.
C5_PieCountsX ==
  (/\ response.status = "done"
   /\ request.chart = "pie"
   /\ request.x \in ColumnNames(request.df)
   /\ request.y = None) =>
    /\ response.fig.ok
    /\ response.fig.value.slices = SlicesByCount(request.df, request.x)

-----------------------------------------------------------------------------
(* load_csv_to_dataframe and the request handlers                          *)

\* pd.read_csv(io.BytesIO(buffer), encoding=...): an uploaded file is what
\* the parser makes of its bytes under utf-8 and under cp1252; without an
\* encoding the parser reads utf-8.
read_csv(buffer, encoding) ==
  IF encoding = "cp1252" THEN buffer.cp1252 ELSE buffer.utf8

\* utf-8, then cp1252, then the parser's default; the last attempt's
\* exception is the caller's.
load_csv_to_dataframe(file_storage) ==
  LET buffer == file_storage.buffer
  IN IF read_csv(buffer, "utf-8").ok THEN read_csv(buffer, "utf-8")
     ELSE IF read_csv(buffer, "cp1252").ok THEN read_csv(buffer, "cp1252")
     ELSE read_csv(buffer, "default")

\* The uploads of the model.
SalesTable ==
  <<[name |-> "Region", dtype |-> "object", cells |-> <<Val("A"), Val("A"), Val("B")>>],
    [name |-> "Sales", dtype |-> "int64", cells |-> <<Val(10), Val(20), Val(5)>>]>>

DaysTable ==
  <<[name |-> "Day", dtype |-> "object", cells |-> <<Val("2020-01-01"), NaN>>],
    [name |-> "Sales", dtype |-> "float64", cells |-> <<Val(10), NaN>>]>>

NotesTable(text) ==
  <<[name |-> " a", dtype |-> "object", cells |-> <<Val(text), Val(" x")>>]>>

TwinHeadersTable ==
  <<[name |-> "a", dtype |-> "int64", cells |-> <<Val(1)>>],
    [name |-> " a", dtype |-> "int64", cells |-> <<Val(2)>>]>>

Files ==
  << \* no file part in the form
     [filename |-> ""],
     \* plain ASCII: the same table under both encodings
     [filename |-> "sales.csv",
      buffer |-> [utf8 |-> Ok(SalesTable), cp1252 |-> Ok(SalesTable)]],
     \* bytes that are not utf-8 and are cp1252
     [filename |-> "days.csv",
      buffer |-> [utf8 |-> Raise("UnicodeDecodeError"), cp1252 |-> Ok(DaysTable)]],
     \* multi-byte utf-8: cp1252 decodes the same bytes to other text
     [filename |-> "notes.csv",
      buffer |-> [utf8 |-> Ok(NotesTable("x")), cp1252 |-> Ok(NotesTable("NaT"))]],
     \* bytes that neither encoding decodes
     [filename |-> "photo.png",
      buffer |-> [utf8 |-> Raise("UnicodeDecodeError"),
                  cp1252 |-> Raise("UnicodeDecodeError")]],
     \* no columns to parse
     [filename |-> "empty.csv",
      buffer |-> [utf8 |-> Raise("EmptyDataError"), cp1252 |-> Raise("EmptyDataError")]],
     \* the header row "a, a": two headers that are equal once trimmed
     [filename |-> "twins.csv",
      buffer |-> [utf8 |-> Ok(TwinHeadersTable), cp1252 |-> Ok(TwinHeadersTable)]] >>

\* The session ids there are (uuid4 values), and how many uploads are kept.
MaxUUID == 3

MaxUploads == 2

UUIDs == 1..MaxUUID

\* The form fields of a chart request.
Forms ==
  {[chart |-> c, x |-> x, y |-> y, color |-> None, agg |-> None, title |-> "",
    palette |-> None] :
     c \in {"pie", "bar", "radar"}, x \in {None, "Region"}, y \in {None, "Sales"}}

\* setitem with a fault: the store is replaced by the new entry alone.
setitem_alone(frames, upload_id, df) == [id \in {upload_id} |-> df]

\* DATAFRAMES[upload_id] = df
setitem(frames, upload_id, df) ==
  [id \in DOMAIN frames \cup {upload_id} |-> IF id = upload_id THEN df ELSE frames[id]]

\* A response: where the request ended (a redirect, a rendered page, a sent
\* file, or an exception that left the handler), the flashed message, the
\* error behind it, and what the handler computed on the way.
Response(route, status, location, flash, error) ==
  [route |-> route, status |-> status, location |-> location, flash |-> flash,
   error |-> error, upload_id |-> 0, inferred |-> FALSE, kinds |-> <<>>,
   suggestions |-> <<>>, built |-> FALSE, fig_html |-> FALSE]

NotFoundResponse(route) ==
  Response(route, "redirect", "index",
           "Upload not found or expired. Please upload again.", "NotFound")

Init ==
  /\ DATAFRAMES = <<>>
  /\ issued = <<>>
  /\ request = [route |-> "index"]
  /\ response = Response("index", "render", "index", None, None)

\* POST /upload
upload ==
  \E f \in 1..Len(Files) :
    LET file == Files[f]
        raw_df == load_csv_to_dataframe(file)
        df == IF raw_df.ok THEN clean_dataframe(raw_df.value) ELSE raw_df
    IN /\ request' = [route |-> "upload", file |-> file]
       /\ IF file.filename = ""
          THEN /\ response' = Response("upload", "redirect", "index",
                                       "Please choose a CSV file to upload.", None)
               /\ UNCHANGED <<DATAFRAMES, issued>>
          ELSE IF df.ok
          THEN /\ Cardinality(DOMAIN DATAFRAMES) < MaxUploads
               /\ \E upload_id \in UUIDs \ DOMAIN DATAFRAMES :
                    /\ DATAFRAMES' = setitem(DATAFRAMES, upload_id, df.value)
                    /\ issued' = [id \in DOMAIN issued \cup {upload_id} |->
                                    IF id = upload_id THEN df.value ELSE issued[id]]
                    /\ response' = [Response("upload", "redirect", "configure", None, None)
                                      EXCEPT !.upload_id = upload_id]
          ELSE /\ response' = Response("upload", "redirect", "index",
                                       "Failed to read CSV", "ParseError")
               /\ UNCHANGED <<DATAFRAMES, issued>>

\* The page of /configure/<upload_id> for a table that was found: with the
\* figure when one was built, with a flashed message when the build raised.
ConfigurePage(upload_id, df, built, raised) ==
  LET kinds == infer_column_kinds(Profile(df))
  IN [Response("configure", "render", "configure",
               IF raised THEN "Failed to build chart" ELSE None,
               IF raised THEN "BuildError" ELSE None)
        EXCEPT !.upload_id = upload_id,
               !.inferred = TRUE,
               !.kinds = kinds,
               !.suggestions = suggest_charts(kinds),
               !.built = built,
               !.fig_html = built]

\* GET /configure/<upload_id>
configure_GET ==
  \E upload_id \in UUIDs :
    /\ request' = [route |-> "configure", method |-> "GET", upload_id |-> upload_id]
    /\ response' = IF upload_id \notin DOMAIN DATAFRAMES
                   THEN NotFoundResponse("configure")
                   ELSE ConfigurePage(upload_id, DATAFRAMES[upload_id], FALSE, FALSE)
    /\ UNCHANGED <<DATAFRAMES, issued>>

\* POST /configure/<upload_id>
configure_POST ==
  \E upload_id \in UUIDs, form \in Forms :
    /\ request' = [route |-> "configure", method |-> "POST", upload_id |-> upload_id,
                   form |-> form]
    /\ response' =
         IF upload_id \notin DOMAIN DATAFRAMES
         THEN NotFoundResponse("configure")
         ELSE LET fig == build_figure(DATAFRAMES[upload_id], form.chart, form.x, form.y,
                                      form.color, form.agg, form.title, form.palette)
              IN ConfigurePage(upload_id, DATAFRAMES[upload_id], fig.ok, ~fig.ok)
    /\ UNCHANGED <<DATAFRAMES, issued>>

\* POST /download/<upload_id>: build_figure is called outside any try.
download_png ==
  \E upload_id \in UUIDs, form \in Forms :
    /\ request' = [route |-> "download", method |-> "POST", upload_id |-> upload_id,
                   form |-> form]
    /\ response' =
         IF upload_id \notin DOMAIN DATAFRAMES
         THEN NotFoundResponse("download")
         ELSE LET fig == build_figure(DATAFRAMES[upload_id], form.chart, form.x, form.y,
                                      form.color, form.agg, form.title, form.palette)
              IN IF fig.ok
                 THEN [Response("download", "send_file", "chart.png", None, None)
                         EXCEPT !.upload_id = upload_id, !.built = TRUE]
                 ELSE [Response("download", "uncaught", "none", None, "BuildError")
                         EXCEPT !.upload_id = upload_id]
    /\ UNCHANGED <<DATAFRAMES, issued>>

Next == upload \/ configure_GET \/ download_png \/ configure_POST

Spec == Init /\ [][Next]_vars

\* C6: every error raised while serving a request is caught and ends the
\* request with a flashed message and a redirect to the entry point; no
\* request ends with an uncaught error.
C6_ErrorsCaughtAndRedirected ==
  response.error # None =>
    /\ response.status = "redirect"
    /\ response.location = "index"
    /\ response.flash # None

\* The part of C6 the code keeps: the errors of upload and every NotFound
\* end in a flashed message and a redirect to the entry point.
C6_UploadAndNotFoundRedirected ==
  response.error \in {"ParseError", "NotFound"} =>
    /\ response.status = "redirect"
    /\ response.location = "index"
    /\ response.flash # None

\* C7: a configure or download request for id s ends in NotFound, with no
\* kinds inferred and no figure built, exactly when no earlier upload
\* succeeded with id s; the store holds exactly the ids successful uploads
\* returned, each with the table stored at its upload.
C7_NotFoundIffNeverUploaded ==
  /\ DOMAIN DATAFRAMES = DOMAIN issued
  /\ \A s \in DOMAIN issued : DATAFRAMES[s] = issued[s]
  /\ request.route \in {"configure", "download"} =>
       /\ response.error = "NotFound" <=> request.upload_id \notin DOMAIN issued
       /\ response.error = "NotFound" => ~response.inferred /\ ~response.built
       /\ response.error # "NotFound" => response.upload_id = request.upload_id
       /\ (response.error # "NotFound" /\ request.route = "configure") =>
            /\ response.inferred
            /\ response.kinds = infer_column_kinds(Profile(issued[request.upload_id]))

\* After two successful uploads a download resolved one of the two ids and
\* sent its chart, while the third id was never returned by an upload.
C7_Witness ==
  /\ Cardinality(DOMAIN issued) = 2
  /\ UUIDs \ DOMAIN issued # {}
  /\ request.route = "download"
  /\ request.upload_id \in DOMAIN issued
  /\ response.status = "send_file"

\* C9: an upload ends in the parse error only when none of the strategies
\* utf-8, cp1252 and the default parse yields a table.
C9_ParseErrorOnlyWithoutTable ==
  (request.route = "upload" /\ response.error = "ParseError") =>
    \A encoding \in {"utf-8", "cp1252", "default"} :
      ~read_csv(request.file.buffer, encoding).ok

\* The part of C9 the code keeps: an upload that ends without a session id
\* leaves the store as it was, and one that returns an id adds exactly that
\* entry, the cleaned table of the first strategy that succeeds.
C9_StoreAfterUpload ==
  [][response'.route = "upload" =>
       IF response'.location = "configure"
       THEN LET buffer == request'.file.buffer
                first  == IF buffer.utf8.ok THEN buffer.utf8 ELSE buffer.cp1252
            IN /\ response'.upload_id \notin DOMAIN DATAFRAMES
               /\ DOMAIN DATAFRAMES' = DOMAIN DATAFRAMES \cup {response'.upload_id}
               /\ \A id \in DOMAIN DATAFRAMES : DATAFRAMES'[id] = DATAFRAMES[id]
               /\ first.ok
               /\ clean_dataframe(first.value).ok
               /\ DATAFRAMES'[response'.upload_id] = clean_dataframe(first.value).value
       ELSE /\ DATAFRAMES' = DATAFRAMES
            /\ response'.upload_id = 0]_vars

=============================================================================
